---- MODULE Spec2Model ----
(***************************************************************************)
(* CanvasScene (OrangeCanvas/canvas/scene.py): the graphics scene that     *)
(* mirrors a Scheme (nodes, links, annotations) as visual items.           *)
(*                                                                         *)
(* Every method of CanvasScene is an operator from a scene state (a record *)
(* of all the variables) to the scene state after the call, so that a      *)
(* method that calls others (set_scheme -> add_node, commit_scheme_node -> *)
(* remove_node_item) is one step.  An exception is the field err of the    *)
(* result; the assignments made before the raise are kept, as in Python.   *)
(***************************************************************************)
EXTENDS Integers, Sequences, FiniteSets, TLC

VARIABLES
    scheme,                 \* self.scheme: "None" or the bound scheme
    node_items,             \* self.__node_items (list)
    item_for_node,          \* self.__item_for_node (dict)
    link_items,             \* self.__link_items (list)
    item_for_link,          \* self.__item_for_link (dict)
    annotation_items,       \* self.__annotation_items (list)
    item_for_annotation,    \* self.__item_for_annotation (dict)
    editable,               \* self.editable
    anchor_layout,          \* state of the object self.__anchor_layout refers to
    activated_mapper,       \* items mapped in self.activated_mapper
    hovered_mapper,         \* items mapped in self.hovered_mapper
    position_change_mapper, \* items mapped in self.position_change_mapper
    next_item,              \* identity of the next visual item constructed
    item_pos,               \* NodeItem.pos() of every live node item
    link_ends,              \* <<sourceItem, sinkItem>> of every live link item
    deleted_items,          \* items whose C++ object QGraphicsScene.clear() deleted
    listeners,              \* per domain entity: the items whose add-time connections are in place
    node_position,          \* SchemeNode.position of every node
    scheme_nodes,           \* Scheme.nodes of every scheme
    scheme_links,           \* Scheme.links of every scheme
    scheme_conn,            \* connections of the scene's slots to every scheme's signals
    channel_names_visible,  \* self.__channel_names_visible
    link_names_visible,     \* channel names visibility of every live link item
    item_conn,              \* per node item: connections of each of its signals to the mappers
    selected,               \* the selected node items
    user_interaction_handler, \* self.user_interaction_handler: "None" or the handler
    handler_state,          \* lifecycle state of every interaction handler
    delegated,              \* the calls the last call made on handlers and the base class, in order
    announced,              \* per item-added emission of the last call: the entities registered for the item then
    call,                   \* the last call made on the scene: <<method, argument>>
    ret,                    \* its return value (NoItem for None)
    err,                    \* the exception it raised (NoErr for none)
    emitted,                \* the scene signals it emitted, in order
    invalidated             \* the anchor layout invalidations it requested, in order

vars == <<scheme, node_items, item_for_node, link_items, item_for_link,
          annotation_items, item_for_annotation, editable, anchor_layout,
          activated_mapper, hovered_mapper, position_change_mapper,
          next_item, item_pos, link_ends, deleted_items, listeners,
          node_position, scheme_nodes, scheme_links, scheme_conn,
          channel_names_visible, link_names_visible, item_conn, selected,
          user_interaction_handler, handler_state, delegated, announced,
          call, ret, err, emitted, invalidated>>

----------------------------------------------------------------------------
(* Bounds of the model *)

\* visual items constructed in one run
MaxItems == 4
\* calls of set_scheme with one scheme in one run
MaxSetScheme == 1
\* calls of add_node_item with one item in one run
MaxConnections == 2
\* length of the scene's lists of link items and of annotation items
MaxListLen == 3

----------------------------------------------------------------------------
(* The domain model (scheme package) the scene is given *)

Nodes == {"A", "B"}
Links == {"L1", "L2"}
\* a SchemeTextAnnotation and a SchemeArrowAnnotation
Annotations == {"T", "R"}
Schemes == {"S1", "S2"}
Entities == Nodes \cup Links \cup Annotations
\* the interaction handlers installed with set_user_interaction_handler
Handlers == {"H1", "H2"}

\* SchemeLink.source_node, SchemeLink.sink_node
source_node(link) == IF link = "L1" THEN "A" ELSE "B"
sink_node(link) == IF link = "L1" THEN "B" ELSE "A"

\* Scheme.annotations
scheme_annotations(s) == IF s = "S1" THEN <<"T">> ELSE <<>>

\* positions a SchemeNode is moved to; the origin is among them
Positions == {<<0, 0>>, <<10, 20>>}

None == "None"
NoItem == 0
NoErr == "NoErr"
\* SchemeNode.position of a node that has none
NoPos == <<>>
\* QPointF(): the null point, the position of a newly constructed item
NullPos == <<0, 0>>
DefaultX == 150
DefaultY == 150
OffsetX == 150

----------------------------------------------------------------------------
(* Python lists and dicts *)

EmptyDict == [k \in {} |-> NoItem]
Put(d, k, v) == [x \in (DOMAIN d) \cup {k} |-> IF x = k THEN v ELSE d[x]]
Pop(d, k) == [x \in (DOMAIN d) \ {k} |-> d[x]]
Range(seq) == {seq[i] : i \in DOMAIN seq}
Values(d) == {d[k] : k \in DOMAIN d}

\* list.remove(x): the list without the first occurrence of x
RECURSIVE ListRemove(_, _)
ListRemove(seq, x) ==
    IF seq = <<>> THEN <<>>
    ELSE IF Head(seq) = x THEN Tail(seq)
    ELSE <<Head(seq)>> \o ListRemove(Tail(seq), x)

----------------------------------------------------------------------------
(* The scene state as one record, and a call's outcome *)

State ==
    [scheme |-> scheme, node_items |-> node_items, item_for_node |-> item_for_node,
     link_items |-> link_items, item_for_link |-> item_for_link,
     annotation_items |-> annotation_items,
     item_for_annotation |-> item_for_annotation, editable |-> editable,
     anchor_layout |-> anchor_layout, activated_mapper |-> activated_mapper,
     hovered_mapper |-> hovered_mapper,
     position_change_mapper |-> position_change_mapper,
     next_item |-> next_item, item_pos |-> item_pos, link_ends |-> link_ends,
     deleted_items |-> deleted_items, listeners |-> listeners,
     node_position |-> node_position, scheme_nodes |-> scheme_nodes,
     scheme_links |-> scheme_links, scheme_conn |-> scheme_conn,
     channel_names_visible |-> channel_names_visible,
     link_names_visible |-> link_names_visible, item_conn |-> item_conn,
     selected |-> selected,
     user_interaction_handler |-> user_interaction_handler,
     handler_state |-> handler_state, delegated |-> delegated,
     announced |-> announced,
     call |-> call, ret |-> ret, err |-> err, emitted |-> emitted,
     invalidated |-> invalidated]

Apply(r) ==
    /\ scheme' = r.scheme
    /\ node_items' = r.node_items
    /\ item_for_node' = r.item_for_node
    /\ link_items' = r.link_items
    /\ item_for_link' = r.item_for_link
    /\ annotation_items' = r.annotation_items
    /\ item_for_annotation' = r.item_for_annotation
    /\ editable' = r.editable
    /\ anchor_layout' = r.anchor_layout
    /\ activated_mapper' = r.activated_mapper
    /\ hovered_mapper' = r.hovered_mapper
    /\ position_change_mapper' = r.position_change_mapper
    /\ next_item' = r.next_item
    /\ item_pos' = r.item_pos
    /\ link_ends' = r.link_ends
    /\ deleted_items' = r.deleted_items
    /\ listeners' = r.listeners
    /\ node_position' = r.node_position
    /\ scheme_nodes' = r.scheme_nodes
    /\ scheme_links' = r.scheme_links
    /\ scheme_conn' = r.scheme_conn
    /\ channel_names_visible' = r.channel_names_visible
    /\ link_names_visible' = r.link_names_visible
    /\ item_conn' = r.item_conn
    /\ selected' = r.selected
    /\ user_interaction_handler' = r.user_interaction_handler
    /\ handler_state' = r.handler_state
    /\ delegated' = r.delegated
    /\ announced' = r.announced
    /\ call' = r.call
    /\ ret' = r.ret
    /\ err' = r.err
    /\ emitted' = r.emitted
    /\ invalidated' = r.invalidated

\* the state at the start of a call: nothing returned, raised or emitted yet
Begin(method, argument) ==
    [State EXCEPT !.call = <<method, argument>>, !.ret = NoItem, !.err = NoErr,
                  !.emitted = <<>>, !.invalidated = <<>>, !.delegated = <<>>,
                  !.announced = <<>>]

Raise(r, exception) == [r EXCEPT !.err = exception, !.ret = NoItem]
Return(r, value) == [r EXCEPT !.ret = value]

\* what a slot connected to an item-added signal gets when it looks the
\* announced item up (node_for_item, link_for_item, annotation_for_item) while
\* the signal is emitted: the entities the dict maps to the item at that moment
Registered(r, signal, item) ==
    LET dict == IF signal = "node_item_added" THEN r.item_for_node
                ELSE IF signal = "link_item_added" THEN r.item_for_link
                ELSE r.item_for_annotation
    IN  {entity \in DOMAIN dict : dict[entity] = item}

ItemAdded == {"node_item_added", "link_item_added", "annotation_added"}

\* signal.emit(item): the connected slots run before emit returns
Emit(r, signal, item) ==
    [r EXCEPT !.emitted = Append(@, <<signal, item>>),
              !.announced = IF signal \in ItemAdded
                            THEN Append(@, Registered(r, signal, item))
                            ELSE @]

----------------------------------------------------------------------------
(* Anchor layout (opaque collaborator): only the invalidation requests *)

\* self.__anchor_layout.invalidateNode(item) / invalidateLink(item): a call
\* on the layout after QGraphicsScene.clear() deleted it raises RuntimeError
Invalidate(r, kind, item) ==
    IF r.anchor_layout = "deleted" THEN Raise(r, "RuntimeError")
    ELSE [r EXCEPT !.invalidated = Append(@, <<kind, item>>)]

----------------------------------------------------------------------------
(* Signals of a node item *)

on_position_change(r, item) ==
    LET r1 == Invalidate(r, "node", item)
    IN  IF r1.err # NoErr THEN r1
        ELSE Emit(r1, "node_item_position_changed", item)

\* item.positionChanged.emit(): every connection add_node_item made to
\* position_change_mapper.pyMap calls it, and pyMap emits pyMapped, which is
\* connected to _on_position_change, when the item has a mapping
RECURSIVE positionChanged(_, _, _)
positionChanged(r, item, connections) ==
    IF connections = 0 \/ item \notin r.position_change_mapper THEN r
    ELSE LET r1 == on_position_change(r, item)
         IN  IF r1.err # NoErr THEN r1
             ELSE positionChanged(r1, item, connections - 1)

\* item.setPos(pos): a NodeItem that moves emits positionChanged
setPos(r, item, pos) ==
    IF r.item_pos[item] = pos THEN r
    ELSE positionChanged([r EXCEPT !.item_pos[item] = pos], item,
                         r.item_conn[item])

\* item.activated.emit(), item.hovered.emit(): every connection add_node_item
\* made to the mapper's pyMap calls it, and pyMap emits pyMapped, which is
\* connected to the scene's signal, when the item has a mapping
RECURSIVE pyMapped(_, _, _, _)
pyMapped(r, signal, item, connections) ==
    IF connections = 0 THEN r
    ELSE pyMapped(Emit(r, signal, item), signal, item, connections - 1)

activated(r, item) ==
    IF item \notin r.activated_mapper THEN r
    ELSE pyMapped(r, "node_item_activated", item, r.item_conn[item])

hovered(r, item) ==
    IF item \notin r.hovered_mapper THEN r
    ELSE pyMapped(r, "node_item_hovered", item, r.item_conn[item])

----------------------------------------------------------------------------
(* Node items *)

\* items.NodeItem(): a new item, at the null position
new_node_item(r) ==
    [r EXCEPT !.next_item = @ + 1,
              !.item_pos = Put(@, r.next_item, NullPos),
              !.item_conn = Put(@, r.next_item, 0)]

\* item.pos().isNull()
IsNull(pos) == pos[1] = 0 /\ pos[2] = 0

add_node_item(r, item) ==
    IF item \in Range(r.node_items) THEN Raise(r, "ValueError")
    ELSE
        LET pos == IF r.node_items # <<>>
                   THEN LET last == r.item_pos[r.node_items[Len(r.node_items)]]
                        IN  <<last[1] + OffsetX, last[2]>>
                   ELSE <<DefaultX, DefaultY>>
            r1 == IF IsNull(r.item_pos[item]) THEN setPos(r, item, pos) ELSE r
            r2 == [r1 EXCEPT !.activated_mapper = @ \cup {item},
                             !.hovered_mapper = @ \cup {item},
                             !.position_change_mapper = @ \cup {item},
                             !.item_conn[item] = @ + 1,
                             !.node_items = Append(@, item)]
        IN  IF r1.err # NoErr THEN r1
            ELSE Return(Emit(r2, "node_item_added", item), item)

\* add_node with the item taken from a cache keyed by node.description, which
\* the nodes share: a second node gets the first node's item
add_node_shared(r, node) ==
    IF node \in DOMAIN r.item_for_node
    THEN Return(r, r.item_for_node[node])
    ELSE IF r.node_items # <<>>
    THEN LET item == r.node_items[1]
         IN  add_node_item([r EXCEPT !.item_for_node = Put(@, node, item),
                                     !.listeners[node] = @ \cup {item}], item)
    ELSE
        LET item == r.next_item
            r1 == new_node_item(r)
            r3 == [r1 EXCEPT !.item_for_node = Put(@, node, item),
                             !.listeners[node] = @ \cup {item}]
        IN  add_node_item(r3, item)

add_node(r, node) ==
    IF node \in DOMAIN r.item_for_node
    THEN Return(r, r.item_for_node[node])
    ELSE
        LET item == r.next_item
            r1 == new_node_item(r)
            r2 == IF r.node_position[node] # NoPos
                  THEN setPos(r1, item, r.node_position[node])
                  ELSE r1
            r3 == [r2 EXCEPT !.item_for_node = Put(@, node, item),
                             !.listeners[node] = @ \cup {item}]
        IN  add_node_item(r3, item)

remove_node_item(r, item) ==
    LET r1 == [r EXCEPT !.activated_mapper = @ \ {item},
                        !.hovered_mapper = @ \ {item}]
    IN  IF item \in r.deleted_items THEN Raise(r1, "RuntimeError")
        ELSE IF item \notin Range(r.node_items) THEN Raise(r1, "ValueError")
        ELSE Emit([r1 EXCEPT !.node_items = ListRemove(@, item),
                             !.selected = @ \ {item}],
                  "node_item_removed", item)

remove_node(r, node) ==
    IF node \notin DOMAIN r.item_for_node THEN Raise(r, "KeyError")
    ELSE
        LET item == r.item_for_node[node]
            r1 == [r EXCEPT !.item_for_node = Pop(@, node)]
        IN  IF item \notin r.listeners[node] THEN Raise(r1, "TypeError")
            ELSE remove_node_item(
                     [r1 EXCEPT !.listeners[node] = @ \ {item}], item)

----------------------------------------------------------------------------
(* Link items *)

\* the log line reads item.sourceItem.title and item.sinkItem.title, an
\* AttributeError on an item whose ends removeLink() has set to None
add_link_item(r, item) ==
    LET r1 == Emit([r EXCEPT !.link_items = Append(@, item)],
                   "link_item_added", item)
        r2 == Invalidate(r1, "link", item)
    IN  IF NoItem \in Range(r.link_ends[item]) THEN Raise(r1, "AttributeError")
        ELSE IF r2.err # NoErr THEN r2 ELSE Return(r2, item)

\* items.LinkItem() with setSourceItem(source_item), setSinkItem(sink_item)
new_link_item(r, source_item, sink_item) ==
    [r EXCEPT !.next_item = @ + 1,
              !.link_ends = Put(@, r.next_item, <<source_item, sink_item>>),
              !.link_names_visible =
                  Put(@, r.next_item, r.channel_names_visible)]

add_link(r, scheme_link) ==
    IF scheme_link \in DOMAIN r.item_for_link
    THEN Return(r, r.item_for_link[scheme_link])
    ELSE IF \/ source_node(scheme_link) \notin DOMAIN r.item_for_node
            \/ sink_node(scheme_link) \notin DOMAIN r.item_for_node
    THEN Raise(r, "KeyError")
    ELSE
        LET item == r.next_item
            r1 == new_link_item(r, r.item_for_node[source_node(scheme_link)],
                                r.item_for_node[sink_node(scheme_link)])
            r2 == [r1 EXCEPT !.listeners[scheme_link] = @ \cup {item}]
            r3 == add_link_item(r2, item)
        IN  IF r3.err # NoErr THEN r3
            ELSE Return([r3 EXCEPT !.item_for_link = Put(@, scheme_link, item)],
                        item)

remove_link_item(r, item) ==
    IF item \notin Range(r.link_items) THEN Raise(r, "ValueError")
    ELSE IF item \in r.deleted_items THEN
        Raise([r EXCEPT !.link_items = ListRemove(@, item)], "RuntimeError")
    ELSE Return(Emit([r EXCEPT !.link_items = ListRemove(@, item),
                               !.link_ends[item] = <<NoItem, NoItem>>],
                     "link_item_removed", item), item)

remove_link(r, scheme_link) ==
    IF scheme_link \notin DOMAIN r.item_for_link THEN Raise(r, "KeyError")
    ELSE
        LET item == r.item_for_link[scheme_link]
            r1 == [r EXCEPT !.item_for_link = Pop(@, scheme_link)]
        IN  IF item \notin r.listeners[scheme_link] THEN Raise(r1, "TypeError")
            ELSE LET r2 == remove_link_item(
                         [r1 EXCEPT !.listeners[scheme_link] = @ \ {item}], item)
                 IN  IF r2.err # NoErr THEN r2 ELSE Return(r2, NoItem)

\* set_channel_names_visible that keeps the flag for the links added later
\* and leaves the link items of the scene as they are
set_channel_names_flag_only(r, visible) ==
    [r EXCEPT !.channel_names_visible = visible]

set_channel_names_visible(r, visible) ==
    [r EXCEPT !.channel_names_visible = visible,
              !.link_names_visible =
                  [i \in DOMAIN @ |-> IF i \in Range(r.link_items)
                                      THEN visible ELSE @[i]]]

----------------------------------------------------------------------------
(* Annotation items *)

add_annotation_item(r, annotation) ==
    Return(Emit([r EXCEPT !.annotation_items = Append(@, annotation)],
                "annotation_added", annotation), annotation)

\* add_annotation without the "already added" test
add_annotation_unchecked(r, scheme_annot) ==
    LET item == r.next_item
        r1 == [r EXCEPT !.next_item = @ + 1,
                        !.listeners[scheme_annot] = @ \cup {item}]
        r2 == add_annotation_item(r1, item)
    IN  Return([r2 EXCEPT !.item_for_annotation = Put(@, scheme_annot, item)],
               item)

add_annotation(r, scheme_annot) ==
    IF scheme_annot \in DOMAIN r.item_for_annotation
    THEN Return(r, r.item_for_annotation[scheme_annot])
    ELSE
        LET item == r.next_item
            r1 == [r EXCEPT !.next_item = @ + 1,
                            !.listeners[scheme_annot] = @ \cup {item}]
            r2 == add_annotation_item(r1, item)
        IN  Return([r2 EXCEPT !.item_for_annotation = Put(@, scheme_annot, item)],
                   item)

remove_annotation_item(r, annotation) ==
    IF annotation \notin Range(r.annotation_items) THEN Raise(r, "ValueError")
    ELSE Emit([r EXCEPT !.annotation_items = ListRemove(@, annotation)],
              "annotation_removed", annotation)

remove_annotation(r, scheme_annotation) ==
    IF scheme_annotation \notin DOMAIN r.item_for_annotation
    THEN Raise(r, "KeyError")
    ELSE
        LET item == r.item_for_annotation[scheme_annotation]
            r1 == [r EXCEPT !.item_for_annotation = Pop(@, scheme_annotation)]
        IN  IF item \notin r.listeners[scheme_annotation]
            THEN Raise(r1, "TypeError")
            ELSE remove_annotation_item(
                     [r1 EXCEPT !.listeners[scheme_annotation] = @ \ {item}],
                     item)

----------------------------------------------------------------------------
(* The scheme the scene is bound to (scheme package) *)

\* self.scheme.add_node(node): raises on a scene bound to no scheme
\* (attribute of None); the scheme may reject the node (accepts = FALSE, and a
\* node it already holds); an accepted node is appended and announced by
\* node_added, which the scene's add_node is connected to
scheme_add_node(r, node, accepts) ==
    IF r.scheme = None THEN Raise(r, "AttributeError")
    ELSE IF ~accepts \/ node \in Range(r.scheme_nodes[r.scheme])
    THEN Raise(r, "SchemeError")
    ELSE LET r1 == [r EXCEPT !.scheme_nodes[r.scheme] = Append(@, node)]
         IN  IF r1.scheme_conn[r.scheme].std > 0
             THEN Return(add_node(r1, node), NoItem)
             ELSE r1

\* self.scheme.add_link(link): likewise; a link is accepted only between
\* nodes of the scheme
scheme_add_link(r, link, accepts) ==
    IF r.scheme = None THEN Raise(r, "AttributeError")
    ELSE IF \/ ~accepts
            \/ link \in Range(r.scheme_links[r.scheme])
            \/ source_node(link) \notin Range(r.scheme_nodes[r.scheme])
            \/ sink_node(link) \notin Range(r.scheme_nodes[r.scheme])
    THEN Raise(r, "SchemeError")
    ELSE LET r1 == [r EXCEPT !.scheme_links[r.scheme] = Append(@, link)]
         IN  IF r1.scheme_conn[r.scheme].std > 0
             THEN Return(add_link(r1, link), NoItem)
             ELSE r1

----------------------------------------------------------------------------
(* Commit of provisional items *)

\* commit_scheme_node whose except clause re-raises without the cleanup
commit_scheme_node_norollback(r, node, accepts) ==
    IF ~r.editable THEN Raise(r, "Exception")
    ELSE IF node \notin DOMAIN r.item_for_node THEN Raise(r, "ValueError")
    ELSE scheme_add_node(r, node, accepts)

commit_scheme_node(r, node, accepts) ==
    IF ~r.editable THEN Raise(r, "Exception")
    ELSE IF node \notin DOMAIN r.item_for_node THEN Raise(r, "ValueError")
    ELSE
        LET item == r.item_for_node[node]
            r1 == scheme_add_node(r, node, accepts)
        IN  IF r1.err # NoErr
            THEN LET r2 == remove_node_item([r1 EXCEPT !.err = NoErr], item)
                 IN  IF r2.err # NoErr THEN r2 ELSE Raise(r2, r1.err)
            ELSE r1

\* commit_scheme_link that looks the link up before it tests self.editable
commit_scheme_link_unguarded(r, link, accepts) ==
    IF link \notin DOMAIN r.item_for_link THEN Raise(r, "ValueError")
    ELSE IF ~r.editable THEN Raise(r, "Exception")
    ELSE scheme_add_link(r, link, accepts)

commit_scheme_link(r, link, accepts) ==
    IF ~r.editable THEN Raise(r, "Exception")
    ELSE IF link \notin DOMAIN r.item_for_link THEN Raise(r, "ValueError")
    ELSE scheme_add_link(r, link, accepts)

----------------------------------------------------------------------------
(* Binding a scheme *)

\* the items QGraphicsScene.clear() removes and deletes
SceneItems(r) ==
    Range(r.node_items) \cup Range(r.link_items) \cup Range(r.annotation_items)

clear_scene(r) ==
    [r EXCEPT !.scheme = None,
              !.node_items = <<>>,
              !.item_for_node = EmptyDict,
              !.link_items = <<>>,
              !.item_for_link = EmptyDict,
              !.annotation_items = <<>>,
              !.item_for_annotation = EmptyDict,
              !.anchor_layout = "deleted",
              !.user_interaction_handler = None,
              !.deleted_items = @ \cup SceneItems(r),
              !.selected = @ \ SceneItems(r),
              !.item_pos = [i \in (DOMAIN @) \ SceneItems(r) |-> @[i]],
              !.item_conn = [i \in (DOMAIN @) \ SceneItems(r) |-> @[i]],
              !.link_ends = [i \in (DOMAIN @) \ SceneItems(r) |-> @[i]],
              !.link_names_visible =
                  [i \in (DOMAIN @) \ SceneItems(r) |-> @[i]]]

\* the loops of set_scheme: for x in seq: self.add_x(x)
RECURSIVE populate(_, _, _)
populate(r, kind, seq) ==
    IF seq = <<>> THEN r
    ELSE LET r1 == CASE kind = "node" -> add_node(r, Head(seq))
                     [] kind = "link" -> add_link(r, Head(seq))
                     [] OTHER -> add_annotation(r, Head(seq))
         IN  IF r1.err # NoErr THEN r1 ELSE populate(r1, kind, Tail(seq))

\* set_scheme with the loop over scheme.links before the loop over scheme.nodes
set_scheme_links_first(r, s) ==
    LET r1 == IF r.scheme # None
              THEN clear_scene([r EXCEPT !.scheme_conn[r.scheme].std = @ - 1])
              ELSE r
        r2 == [r1 EXCEPT !.scheme = s,
                         !.scheme_conn[s].std = @ + 1,
                         !.scheme_conn[s].topology = @ + 1]
        r3 == populate(r2, "link", r2.scheme_links[s])
        r4 == IF r3.err # NoErr THEN r3
              ELSE populate(r3, "node", r3.scheme_nodes[s])
        r5 == IF r4.err # NoErr THEN r4
              ELSE populate(r4, "annotation", scheme_annotations(s))
    IN  IF r5.err # NoErr THEN r5 ELSE Return(r5, NoItem)

set_scheme(r, s) ==
    LET r1 == IF r.scheme # None
              THEN clear_scene([r EXCEPT !.scheme_conn[r.scheme].std = @ - 1])
              ELSE r
        r2 == [r1 EXCEPT !.scheme = s,
                         !.scheme_conn[s].std = @ + 1,
                         !.scheme_conn[s].topology = @ + 1]
        r3 == populate(r2, "node", r2.scheme_nodes[s])
        r4 == IF r3.err # NoErr THEN r3
              ELSE populate(r3, "link", r3.scheme_links[s])
        r5 == IF r4.err # NoErr THEN r4
              ELSE populate(r4, "annotation", scheme_annotations(s))
    IN  IF r.scheme # None /\ r.scheme_conn[r.scheme].std = 0
        THEN Raise(r, "TypeError")
        ELSE IF r5.err # NoErr THEN r5 ELSE Return(r5, NoItem)

----------------------------------------------------------------------------
(* Position changes *)

on_node_pos_changed(r, node, pos) ==
    IF node \notin DOMAIN r.item_for_node THEN Raise(r, "KeyError")
    ELSE setPos(r, r.item_for_node[node], pos)

\* node.position_changed.emit(pos): every connection made by add_node and not
\* disconnected by remove_node calls __on_node_pos_changed
RECURSIVE position_changed(_, _, _, _)
position_changed(r, node, pos, connections) ==
    IF connections = 0 THEN r
    ELSE position_changed(on_node_pos_changed(r, node, pos), node, pos,
                          connections - 1)

----------------------------------------------------------------------------
(* Interaction handlers and raw input events *)

\* a call the scene makes on a handler or on the base class QGraphicsScene
Delegate(r, method, target) ==
    [r EXCEPT !.delegated = Append(@, <<method, target>>)]

\* handler.finished: a handler that was cancelled has finished as well
handler_finished(r, handler) ==
    r.handler_state[handler] \in {"finished", "cancelled"}

\* handler.cancel()
handler_cancel(r, handler) ==
    Delegate([r EXCEPT !.handler_state[handler] = "cancelled"],
             "cancel", handler)

\* handler.start()
handler_start(r, handler) ==
    Delegate([r EXCEPT !.handler_state[handler] = "active"], "start", handler)

\* set_user_interaction_handler that starts the new handler before it
\* cancels the old one
set_user_interaction_handler_start_first(r, handler) ==
    LET old == r.user_interaction_handler
        r1 == IF handler # None THEN handler_start(r, handler) ELSE r
        r2 == IF old # None /\ ~handler_finished(r, old)
              THEN handler_cancel(r1, old) ELSE r1
    IN  [r2 EXCEPT !.user_interaction_handler = handler]

set_user_interaction_handler(r, handler) ==
    LET old == r.user_interaction_handler
        r1 == IF old # None /\ ~handler_finished(r, old)
              THEN handler_cancel(r, old) ELSE r
        r2 == [r1 EXCEPT !.user_interaction_handler = handler]
    IN  IF handler # None THEN handler_start(r2, handler) ELSE r2

\* mousePressEvent, mouseMoveEvent, mouseReleaseEvent, mouseDoubleClickEvent,
\* keyPressEvent, keyReleaseEvent
EventKinds ==
    {"mousePressEvent", "mouseMoveEvent", "mouseReleaseEvent",
     "mouseDoubleClickEvent", "keyPressEvent", "keyReleaseEvent"}

Buttons == {"LeftButton", "RightButton"}

\* what the methods do when the handler has not consumed the event: the
\* right click of mousePressEvent on a selectable node item that is not
\* selected selects that item alone; then the base class handles the event
default_event(r, kind, shape_item, button, selectable) ==
    LET r1 == IF /\ kind = "mousePressEvent"
                 /\ shape_item # NoItem
                 /\ button = "RightButton"
                 /\ selectable
                 /\ shape_item \notin r.selected
              THEN [r EXCEPT !.selected = {shape_item}]
              ELSE r
    IN  Delegate(r1, kind, "QGraphicsScene")

\* the event methods with the default behaviour ahead of the handler
scene_event_default_first(r, kind, consumes, shape_item, button, selectable) ==
    LET handler == r.user_interaction_handler
        r1 == default_event(r, kind, shape_item, button, selectable)
    IN  IF handler = None THEN r1
        ELSE Delegate(Delegate(r1, kind, handler),
                      IF consumes THEN "True" ELSE "False", handler)

\* the six event methods: the handler is given the event and answers
\* whether it consumed it (recorded after the call on it); shape_item is
\* what item_at(event.scenePos(), items.NodeItem) finds
scene_event(r, kind, consumes, shape_item, button, selectable) ==
    LET handler == r.user_interaction_handler
        r1 == IF handler = None THEN r
              ELSE Delegate(Delegate(r, kind, handler),
                            IF consumes THEN "True" ELSE "False", handler)
    IN  IF handler # None /\ consumes THEN r1
        ELSE default_event(r1, kind, shape_item, button, selectable)

----------------------------------------------------------------------------
(* Initial state: CanvasScene.__init__, and the schemes and nodes given *)

Init ==
    /\ scheme = None
    /\ node_items = <<>>
    /\ item_for_node = EmptyDict
    /\ link_items = <<>>
    /\ item_for_link = EmptyDict
    /\ annotation_items = <<>>
    /\ item_for_annotation = EmptyDict
    /\ editable = TRUE
    /\ anchor_layout = "live"
    /\ activated_mapper = {}
    /\ hovered_mapper = {}
    /\ position_change_mapper = {}
    /\ next_item = 1
    /\ item_pos = EmptyDict
    /\ link_ends = EmptyDict
    /\ deleted_items = {}
    /\ listeners = [e \in Entities |-> {}]
    /\ node_position = [n \in Nodes |-> NoPos]
    /\ scheme_nodes = [s \in Schemes |-> IF s = "S1" THEN <<"A", "B">> ELSE <<>>]
    /\ scheme_links = [s \in Schemes |-> IF s = "S1" THEN <<"L1">> ELSE <<>>]
    /\ scheme_conn = [s \in Schemes |-> [std |-> 0, topology |-> 0]]
    /\ channel_names_visible = TRUE
    /\ link_names_visible = EmptyDict
    /\ item_conn = EmptyDict
    /\ selected = {}
    /\ user_interaction_handler = None
    /\ handler_state = [h \in Handlers |-> "inactive"]
    /\ delegated = <<>>
    /\ announced = <<>>
    /\ call = <<"__init__", None>>
    /\ ret = NoItem
    /\ err = NoErr
    /\ emitted = <<>>
    /\ invalidated = <<>>

----------------------------------------------------------------------------
(* Actions: one call on the scene, or one notification delivered to it *)

\* a call that may construct items is made while identities are left
Fresh(n) == next_item + n - 1 <= MaxItems

\* set_scheme connects on_scheme_change to topology_changed and nothing ever
\* disconnects it: the connections count the calls of set_scheme with s
SetSchemeCalls(s) == scheme_conn[s].topology

AddNode(node) ==
    /\ node \in DOMAIN item_for_node \/ Fresh(1)
    /\ Apply(add_node(Begin("add_node", node), node))

RemoveNode(node) ==
    Apply(remove_node(Begin("remove_node", node), node))

AddLink(link) ==
    /\ link \in DOMAIN item_for_link \/ Fresh(1)
    /\ Apply(add_link(Begin("add_link", link), link))

RemoveLink(link) ==
    Apply(remove_link(Begin("remove_link", link), link))

AddAnnotation(annot) ==
    /\ annot \in DOMAIN item_for_annotation \/ Fresh(1)
    /\ Apply(add_annotation(Begin("add_annotation", annot), annot))

RemoveAnnotation(annot) ==
    Apply(remove_annotation(Begin("remove_annotation", annot), annot))

CommitSchemeNode(node, accepts) ==
    Apply(commit_scheme_node(Begin("commit_scheme_node", node), node, accepts))

CommitSchemeLink(link, accepts) ==
    Apply(commit_scheme_link(Begin("commit_scheme_link", link), link, accepts))

\* the call is made when the items it constructs stay within MaxItems
SetScheme(s) ==
    /\ SetSchemeCalls(s) < MaxSetScheme
    /\ Apply(set_scheme(Begin("set_scheme", s), s))
    /\ next_item' <= MaxItems + 1

SetEditable(b) ==
    /\ editable # b
    /\ Apply([Begin("editable", None) EXCEPT !.editable = b])

SetChannelNamesVisible(visible) ==
    Apply(set_channel_names_visible(Begin("set_channel_names_visible", None),
                                    visible))

SetUserInteractionHandler(handler) ==
    Apply(set_user_interaction_handler(
              Begin("set_user_interaction_handler", handler), handler))

\* the installed handler ends its interaction by itself
HandlerEnds(handler) ==
    /\ user_interaction_handler = handler
    /\ handler_state[handler] = "active"
    /\ Apply([Begin("end", handler) EXCEPT
                 !.handler_state[handler] = "finished"])

SceneEvent(kind, consumes, shape_item, button, selectable) ==
    /\ user_interaction_handler = None => ~consumes
    /\ kind # "mousePressEvent" =>
           (shape_item = NoItem /\ button = "LeftButton" /\ selectable)
    /\ Apply(scene_event(Begin(kind, None), kind, consumes, shape_item,
                         button, selectable))

NodePositionChanged(node, pos) ==
    /\ node_position[node] # pos
    /\ Apply(position_changed(
           [Begin("position_changed", node) EXCEPT !.node_position[node] = pos],
           node, pos, Cardinality(listeners[node])))

\* the identities of the visual items
Items == 1 .. MaxItems
\* the node items constructed and not deleted, in the scene or not
LiveNodeItems == DOMAIN item_pos \ deleted_items
ItemName(item) == ToString(item)

\* the item is double-clicked, the pointer enters it, it is dragged to pos
ItemActivated(item) ==
    /\ item \in LiveNodeItems
    /\ Apply(activated(Begin("activated", ItemName(item)), item))

ItemHovered(item) ==
    /\ item \in LiveNodeItems
    /\ Apply(hovered(Begin("hovered", ItemName(item)), item))

ItemMoved(item, pos) ==
    /\ item \in LiveNodeItems
    /\ item_pos[item] # pos
    /\ Apply(setPos(Begin("positionChanged", ItemName(item)), item, pos))

\* add_node_item, remove_node_item called with an item the caller holds
AddNodeItem(item) ==
    /\ item \in LiveNodeItems
    /\ item_conn[item] < MaxConnections
    /\ Apply(add_node_item(Begin("add_node_item", ItemName(item)), item))

RemoveNodeItem(item) ==
    /\ item \in LiveNodeItems
    /\ Apply(remove_node_item(Begin("remove_node_item", ItemName(item)), item))

\* add_link_item, add_annotation_item called with an item the caller holds
AddLinkItem(item) ==
    /\ item \in DOMAIN link_ends \ deleted_items
    /\ Len(link_items) < MaxListLen
    /\ Apply(add_link_item(Begin("add_link_item", ItemName(item)), item))

AddAnnotationItem(item) ==
    /\ item \in Range(annotation_items) \ deleted_items
    /\ Len(annotation_items) < MaxListLen
    /\ Apply(add_annotation_item(Begin("add_annotation_item", ItemName(item)),
                                 item))

Next ==
    \/ \E node \in Nodes : AddNode(node)
    \/ \E node \in Nodes : RemoveNode(node)
    \/ \E link \in Links : AddLink(link)
    \/ \E link \in Links : RemoveLink(link)
    \/ \E annot \in Annotations : AddAnnotation(annot)
    \/ \E annot \in Annotations : RemoveAnnotation(annot)
    \/ \E node \in Nodes, accepts \in BOOLEAN : CommitSchemeNode(node, accepts)
    \/ \E link \in Links, accepts \in BOOLEAN : CommitSchemeLink(link, accepts)
    \/ \E s \in Schemes : SetScheme(s)
    \/ \E b \in BOOLEAN : SetEditable(b)
    \/ \E node \in Nodes, pos \in Positions : NodePositionChanged(node, pos)
    \/ \E visible \in BOOLEAN : SetChannelNamesVisible(visible)
    \/ \E handler \in Handlers \cup {None} : SetUserInteractionHandler(handler)
    \/ \E handler \in Handlers : HandlerEnds(handler)
    \/ \E kind \in EventKinds, consumes \in BOOLEAN,
          shape_item \in Range(node_items) \cup {NoItem},
          button \in Buttons, selectable \in BOOLEAN :
            SceneEvent(kind, consumes, shape_item, button, selectable)
    \/ \E item \in Items : ItemActivated(item)
    \/ \E item \in Items : ItemHovered(item)
    \/ \E item \in Items, pos \in Positions : ItemMoved(item, pos)
    \/ \E item \in Items : AddNodeItem(item)
    \/ \E item \in Items : RemoveNodeItem(item)
    \/ \E item \in Items : AddLinkItem(item)
    \/ \E item \in Items : AddAnnotationItem(item)

\* every call and notification, in any order
Spec == Init /\ [][Next]_vars

(* The full state space is the product of the independent parts of the    *)
(* scene, so each group of methods is also explored on its own: the        *)
(* specifications below are Spec restricted to the calls named.            *)

\* the add and remove methods, on a scene bound to no scheme
NextItems ==
    \/ \E node \in Nodes : AddNode(node)
    \/ \E node \in Nodes : RemoveNode(node)
    \/ \E link \in Links : AddLink(link)
    \/ \E link \in Links : RemoveLink(link)
    \/ \E annot \in Annotations : AddAnnotation(annot)
    \/ \E annot \in Annotations : RemoveAnnotation(annot)

SpecItems == Init /\ [][NextItems]_vars

\* provisional nodes, their commit into the bound scheme, their removal
NextCommitNode ==
    \/ \E node \in Nodes : AddNode(node)
    \/ \E node \in Nodes : RemoveNode(node)
    \/ \E node \in Nodes, accepts \in BOOLEAN : CommitSchemeNode(node, accepts)
    \/ \E s \in Schemes : SetScheme(s)

SpecCommitNode == Init /\ [][NextCommitNode]_vars

\* provisional nodes and links, committed while the scene is editable or not
NextCommit ==
    \/ \E node \in Nodes : AddNode(node)
    \/ \E link \in Links : AddLink(link)
    \/ \E node \in Nodes, accepts \in BOOLEAN : CommitSchemeNode(node, accepts)
    \/ \E link \in Links, accepts \in BOOLEAN : CommitSchemeLink(link, accepts)
    \/ \E s \in Schemes : SetScheme(s)
    \/ \E b \in BOOLEAN : SetEditable(b)

SpecCommit == Init /\ [][NextCommit]_vars

\* binding a scheme to a scene that nodes and links were added to or not
NextScheme ==
    \/ \E node \in Nodes : AddNode(node)
    \/ \E node \in Nodes : RemoveNode(node)
    \/ \E link \in Links : AddLink(link)
    \/ \E s \in Schemes : SetScheme(s)

SpecScheme == Init /\ [][NextScheme]_vars

\* binding one scheme after another, and what their nodes announce later
NextNotify ==
    \/ \E s \in Schemes : SetScheme(s)
    \/ \E node \in Nodes : RemoveNode(node)
    \/ \E link \in Links : RemoveLink(link)
    \/ \E node \in Nodes, pos \in Positions : NodePositionChanged(node, pos)

SpecNotify == Init /\ [][NextNotify]_vars

\* links added and removed while the channel names are shown and hidden
NextChannels ==
    \/ \E node \in Nodes : AddNode(node)
    \/ \E link \in Links : AddLink(link)
    \/ \E link \in Links : RemoveLink(link)
    \/ \E visible \in BOOLEAN : SetChannelNamesVisible(visible)

SpecChannels == Init /\ [][NextChannels]_vars

\* handlers installed, replaced and ended, and the input events between
NextHandlers ==
    \/ \E node \in Nodes : AddNode(node)
    \/ \E handler \in Handlers \cup {None} : SetUserInteractionHandler(handler)
    \/ \E handler \in Handlers : HandlerEnds(handler)
    \/ \E kind \in EventKinds, consumes \in BOOLEAN,
          shape_item \in Range(node_items) \cup {NoItem},
          button \in Buttons, selectable \in BOOLEAN :
            SceneEvent(kind, consumes, shape_item, button, selectable)

SpecHandlers == Init /\ [][NextHandlers]_vars

\* entities added, removed and left behind by set_scheme, and what the
\* nodes announce afterwards
NextListeners ==
    \/ \E node \in Nodes : AddNode(node)
    \/ \E node \in Nodes : RemoveNode(node)
    \/ \E link \in Links : RemoveLink(link)
    \/ \E annot \in Annotations : RemoveAnnotation(annot)
    \/ \E s \in Schemes : SetScheme(s)
    \/ \E node \in Nodes : NodePositionChanged(node, <<10, 20>>)

SpecListeners == Init /\ [][NextListeners]_vars

\* node items added, removed and added again, and the signals the items and
\* the nodes emit in between
NextMappers ==
    \/ \E node \in Nodes : AddNode(node)
    \/ \E item \in Items : AddNodeItem(item)
    \/ \E item \in Items : RemoveNodeItem(item)
    \/ \E item \in Items : ItemActivated(item)
    \/ \E item \in Items : ItemHovered(item)
    \/ \E item \in Items, pos \in Positions : ItemMoved(item, pos)

SpecMappers == Init /\ [][NextMappers]_vars

\* node items added, removed and added again while the nodes move
NextMoves ==
    \/ \E node \in Nodes : AddNode(node)
    \/ \E item \in Items : AddNodeItem(item)
    \/ \E item \in Items : RemoveNodeItem(item)
    \/ \E node \in Nodes, pos \in Positions : NodePositionChanged(node, pos)

SpecMoves == Init /\ [][NextMoves]_vars

\* items added through the domain objects and added again as items
NextDuplicates ==
    \/ \E node \in Nodes : AddNode(node)
    \/ \E link \in Links : AddLink(link)
    \/ \E annot \in Annotations : AddAnnotation(annot)
    \/ \E item \in Items : AddNodeItem(item)
    \/ \E item \in Items : AddLinkItem(item)
    \/ \E item \in Items : AddAnnotationItem(item)

SpecDuplicates == Init /\ [][NextDuplicates]_vars

----------------------------------------------------------------------------
(* Lookups *)

\* node_for_item, link_for_item, annotation_for_item reverse the dict and index
\* it: the result is a key that maps to the item -- the one the reversal kept,
\* were there several -- and KeyError when this set is empty
node_for_item(item) ==
    {node \in DOMAIN item_for_node : item_for_node[node] = item}
link_for_item(item) ==
    {link \in DOMAIN item_for_link : item_for_link[link] = item}
annotation_for_item(item) ==
    {annot \in DOMAIN item_for_annotation : item_for_annotation[annot] = item}

----------------------------------------------------------------------------
(* Properties *)

Succeeded(method) == call[1] = method /\ err = NoErr

\* C1: after any sequence of add and remove calls, the reverse lookup of the
\* item of every added node, link and annotation gives back that entity and
\* no other: the three dicts are one-to-one.
C1_LookupsRoundTrip ==
    /\ \A node \in DOMAIN item_for_node :
           node_for_item(item_for_node[node]) = {node}
    /\ \A link \in DOMAIN item_for_link :
           link_for_item(item_for_link[link]) = {link}
    /\ \A annot \in DOMAIN item_for_annotation :
           annotation_for_item(item_for_annotation[annot]) = {annot}

\* both nodes, a link and an annotation were added, then a node removed
C1_Witness ==
    /\ Succeeded("remove_node")
    /\ DOMAIN item_for_node # {}
    /\ DOMAIN item_for_link # {}
    /\ DOMAIN item_for_annotation # {}

\* what an add method does for an entity that is already added: it returns
\* the item the dict holds and changes, emits and connects nothing
Idempotent(method, entity, dict) ==
    (call' = <<method, entity>> /\ entity \in DOMAIN dict) =>
        /\ err' = NoErr
        /\ ret' = dict[entity]
        /\ emitted' = <<>>
        /\ invalidated' = <<>>
        /\ listeners' = listeners
        /\ UNCHANGED <<node_items, item_for_node, link_items, item_for_link,
                       annotation_items, item_for_annotation, next_item>>

\* what it does for an entity that is not: the item returned is the one the
\* dict holds afterwards
FirstAdd(method, entity, dict, dictAfter) ==
    (call' = <<method, entity>> /\ entity \notin DOMAIN dict /\ err' = NoErr) =>
        (entity \in DOMAIN dictAfter /\ ret' = dictAfter[entity])

\* C2: add_node, add_link and add_annotation of an entity that is already
\* added return the item the first call returned, append nothing to the item
\* lists, emit no item-added signal and connect no listener.
C2_AddIsIdempotent ==
    [][/\ \A node \in Nodes :
            /\ Idempotent("add_node", node, item_for_node)
            /\ FirstAdd("add_node", node, item_for_node, item_for_node')
        /\ \A link \in Links :
            /\ Idempotent("add_link", link, item_for_link)
            /\ FirstAdd("add_link", link, item_for_link, item_for_link')
        /\ \A annot \in Annotations :
            /\ Idempotent("add_annotation", annot, item_for_annotation)
            /\ FirstAdd("add_annotation", annot, item_for_annotation,
                        item_for_annotation')]_vars

\* an add call that returned an item and emitted nothing: a second add
C2_Witness ==
    /\ call[1] \in {"add_node", "add_link", "add_annotation"}
    /\ err = NoErr
    /\ ret # NoItem
    /\ emitted = <<>>

\* C3: remove_node of an added node leaves the node out of the dict and its
\* item out of node_items(); one node item was removed and one
\* node_item_removed emitted; item_for_node and node_for_item then fail.
C3_RemoveNodeRemovesOne ==
    [][\A node \in Nodes :
          (call' = <<"remove_node", node>> /\ node \in DOMAIN item_for_node) =>
              LET item == item_for_node[node]
              IN  /\ node \notin DOMAIN item_for_node'
                  /\ item \notin Values(item_for_node')
                  /\ item \notin Range(node_items')
                  /\ Len(node_items') = Len(node_items) - 1
                  /\ emitted' = << <<"node_item_removed", item>> >>]_vars

\* add_link of a link with an endpoint that has no item in the node dict
MissingEndpoint(link) ==
    \/ source_node(link) \notin DOMAIN item_for_node
    \/ sink_node(link) \notin DOMAIN item_for_node

\* the link dict, link_items() and the listeners on the link are as before
\* the call, and nothing was emitted or invalidated
LinkUntouched(link) ==
    /\ item_for_link' = item_for_link
    /\ link_items' = link_items
    /\ listeners'[link] = listeners[link]
    /\ emitted' = <<>>
    /\ invalidated' = <<>>

\* C4: add_link of a link with a missing endpoint fails with an error and
\* leaves link dict, link_items() and the link's listeners as they were.
C4_MissingEndpointFails ==
    [][\A link \in Links :
          (call' = <<"add_link", link>> /\ MissingEndpoint(link)) =>
              (err' # NoErr /\ LinkUntouched(link))]_vars

\* a commit_scheme_node step in which self.scheme.add_node raised: the scene
\* is editable, the node has an item, and the call failed
ModelRejectsNode(node) ==
    /\ call' = <<"commit_scheme_node", node>>
    /\ editable
    /\ node \in DOMAIN item_for_node
    /\ err' # NoErr

\* C5 as claimed: a commit_scheme_node that failed in the model leaves as
\* many items in node_items() as there were before the call.
C5_FailedCommitKeepsCount ==
    [][\A node \in Nodes :
          ModelRejectsNode(node) => Len(node_items') = Len(node_items)]_vars

\* C5 as amended: a commit_scheme_node that failed in the model leaves
\* node_items() without the node's item: one item fewer than before the call
\* when the item was in node_items(), as many when it was not.
C5_FailedCommitRemovesItem ==
    [][\A node \in Nodes :
          ModelRejectsNode(node) =>
              LET item == item_for_node[node]
              IN  /\ node_items' = ListRemove(node_items, item)
                  /\ item \notin Range(node_items')
                  /\ Len(node_items') =
                         IF item \in Range(node_items)
                         THEN Len(node_items) - 1 ELSE Len(node_items)]_vars

\* a rejected commit that took the item out of a scene holding two
C5_Witness ==
    /\ call[1] = "commit_scheme_node"
    /\ err \in {"SchemeError", "AttributeError"}
    /\ Len(emitted) = 1
    /\ Len(node_items) = 1

\* C6: when the model rejects the node, the node's item is out of
\* node_items() when the call returns, one node_item_removed was emitted for
\* it, and the error raised is the model's.
C6_RejectedCommitRollsBack ==
    [][\A node \in Nodes :
          ModelRejectsNode(node) =>
              LET item == item_for_node[node]
              IN  /\ item \notin Range(node_items')
                  /\ emitted' = << <<"node_item_removed", item>> >>
                  /\ err' \in {"SchemeError", "AttributeError"}]_vars

\* C7: when the model rejects the link, the link's item is out of
\* link_items() and the link out of the link dict when the call returns.
C7_RejectedLinkCommitRollsBack ==
    [][\A link \in Links :
          (/\ call' = <<"commit_scheme_link", link>>
           /\ editable
           /\ link \in DOMAIN item_for_link
           /\ err' # NoErr) =>
              /\ item_for_link[link] \notin Range(link_items')
              /\ link \notin DOMAIN item_for_link']_vars

\* C8: on a scene that is not editable commit_scheme_node and
\* commit_scheme_link raise before anything else: the scheme holds what it
\* held, and dicts, item lists, listeners and signals are untouched, whether
\* the entity has an item or not.
C8_CommitRefusedWhenNotEditable ==
    [][(call'[1] \in {"commit_scheme_node", "commit_scheme_link"} /\ ~editable) =>
          /\ err' = "Exception"
          /\ emitted' = <<>>
          /\ UNCHANGED <<scheme, scheme_nodes, scheme_links, scheme_conn,
                         node_items, item_for_node, link_items, item_for_link,
                         annotation_items, item_for_annotation, listeners,
                         activated_mapper, hovered_mapper, editable>>]_vars

\* a refused commit of a link that has no item, next to a node that has one
C8_Witness ==
    /\ call[1] = "commit_scheme_link"
    /\ err = "Exception"
    /\ ~editable
    /\ call[2] \notin DOMAIN item_for_link
    /\ DOMAIN item_for_node # {}
    /\ scheme # None

\* a scene with no contents that no scheme was bound to
NoContents ==
    /\ scheme = None
    /\ node_items = <<>> /\ DOMAIN item_for_node = {}
    /\ link_items = <<>> /\ DOMAIN item_for_link = {}
    /\ annotation_items = <<>> /\ DOMAIN item_for_annotation = {}

\* the place of a signal in the order nodes, links, annotations
Rank(signal) ==
    CASE signal = "node_item_added" -> 1
      [] signal = "link_item_added" -> 2
      [] OTHER -> 3

SchemeEntities(s) ==
    Range(scheme_nodes[s]) \cup Range(scheme_links[s])
        \cup Range(scheme_annotations(s))

\* the visual items the dicts hold
RegisteredItems ==
    Values(item_for_node) \cup Values(item_for_link)
        \cup Values(item_for_annotation)

\* C10: set_scheme on a scene bound to a scheme leaves no slot of the scene
\* connected to the old scheme, nor a listener on an entity of the old scheme
\* other than those of the items just made for it; and a position_changed of
\* a node that has no item in the scene raises nothing and moves no item.
C10_SetSchemeDetachesOldScheme ==
    [][/\ \A s \in Schemes :
            (call' = <<"set_scheme", s>> /\ scheme # None) =>
                /\ scheme # s =>
                       scheme_conn'[scheme] = [std |-> 0, topology |-> 0]
                /\ \A e \in SchemeEntities(scheme) :
                       listeners'[e] \subseteq RegisteredItems'
        /\ \A node \in Nodes :
            (call' = <<"position_changed", node>>
                 /\ node \notin DOMAIN item_for_node) =>
                (err' = NoErr /\ item_pos' = item_pos)]_vars

\* C11: every link item in link_items() shows its channel names exactly when
\* channel_names_visible() says so, whether it was added before or after the
\* last set_channel_names_visible.
C11_LinkItemsFollowVisibility ==
    \A item \in Range(link_items) :
        link_names_visible[item] = channel_names_visible

\* the names were hidden while the scene held two link items
C11_Witness ==
    /\ call[1] = "set_channel_names_visible"
    /\ ~channel_names_visible
    /\ Len(link_items) = 2
    /\ \A item \in Range(link_items) : ~link_names_visible[item]

\* the installed handler, when it has not finished
Unfinished(handler) ==
    /\ handler # None
    /\ handler_state[handler] \notin {"finished", "cancelled"}

\* C12: set_user_interaction_handler calls cancel() once on an installed
\* handler that has not finished, before start() of the new one, and calls
\* nothing else on it; it calls no cancel() when the installed handler has
\* finished or none is installed.
C12_ReplacedHandlerIsCancelledOnce ==
    [][\A handler \in Handlers \cup {None} :
          call' = <<"set_user_interaction_handler", handler>> =>
              LET old == user_interaction_handler
                  cancels == IF Unfinished(old)
                             THEN << <<"cancel", old>> >> ELSE <<>>
                  starts == IF handler # None
                            THEN << <<"start", handler>> >> ELSE <<>>
              IN  /\ delegated' = cancels \o starts
                  /\ user_interaction_handler' = handler
                  /\ (Unfinished(old) /\ old # handler) =>
                         handler_state'[old] = "cancelled"]_vars

\* an active handler was replaced by another: cancelled, then the other started
C12_Witness ==
    /\ call = <<"set_user_interaction_handler", "H2">>
    /\ delegated = << <<"cancel", "H1">>, <<"start", "H2">> >>
    /\ handler_state["H1"] = "cancelled"

\* C13: each of the six event methods gives the event to the installed
\* handler first; when the handler consumed it nothing else happens (no call
\* of the base class, no change of the selection), and when it did not, or
\* no handler is installed, the default behaviour runs once.
C13_HandlerHasFirstRefusal ==
    [][\A kind \in EventKinds :
          call' = <<kind, None>> =>
              LET handler == user_interaction_handler
                  default == <<kind, "QGraphicsScene">>
              IN  IF handler = None
                  THEN delegated' = <<default>>
                  ELSE /\ delegated'[1] = <<kind, handler>>
                       /\ delegated'[2] \in {<<"True", handler>>,
                                             <<"False", handler>>}
                       /\ delegated'[2][1] = "True" =>
                              (Len(delegated') = 2 /\ selected' = selected)
                       /\ delegated'[2][1] = "False" =>
                              (Len(delegated') = 3 /\ delegated'[3] = default)
          ]_vars

\* a mouse press on a scene with a node item, consumed by the handler
C13_Witness ==
    /\ call[1] = "mousePressEvent"
    /\ node_items # <<>>
    /\ user_interaction_handler # None
    /\ delegated = << <<"mousePressEvent", user_interaction_handler>>,
                      <<"True", user_interaction_handler>> >>

\* C17: set_user_interaction_handler never calls start() on a handler that
\* was cancelled or has finished: neither on one that reached that state
\* earlier, nor on the installed one that this very call cancels.
C17_TerminalHandlerNeverStarted ==
    [][\A handler \in Handlers :
          call' = <<"set_user_interaction_handler", handler>> =>
              /\ handler_state[handler] \notin {"finished", "cancelled"}
              /\ <<"cancel", handler>> \notin Range(delegated')]_vars

\* C14: remove_node, remove_link and remove_annotation of an added entity
\* leave no listener of the scene on the entity, and a position_changed of a
\* node that was removed raises nothing and moves no item.
C14_RemoveLeavesNoListener ==
    [][/\ \A node \in Nodes :
           (call' = <<"remove_node", node>> /\ node \in DOMAIN item_for_node)
               => listeners'[node] = {}
       /\ \A link \in Links :
           (call' = <<"remove_link", link>> /\ link \in DOMAIN item_for_link)
               => listeners'[link] = {}
       /\ \A annot \in Annotations :
           (call' = <<"remove_annotation", annot>>
                /\ annot \in DOMAIN item_for_annotation)
               => listeners'[annot] = {}
       /\ \A node \in Nodes :
           (call' = <<"position_changed", node>>
                /\ call = <<"remove_node", node>>)
               => (err' = NoErr /\ item_pos' = item_pos)]_vars

\* C15: remove_node_item(item) removes the item's mapping from the three
\* signal mappers (activation, hover, position change): the item it removed is
\* mapped in none of them, and an activated, hovered or positionChanged signal
\* of an item that is no longer in the scene makes the scene emit nothing and
\* request no anchor invalidation
C15_RemovedItemIsUnmapped ==
    [][\A item \in Items :
          /\ (call' = <<"remove_node_item", ItemName(item)>> /\ err' = NoErr)
                => item \notin activated_mapper' \cup hovered_mapper'
                                \cup position_change_mapper'
          /\ ( /\ call' \in {<<"activated", ItemName(item)>>,
                              <<"hovered", ItemName(item)>>,
                              <<"positionChanged", ItemName(item)>>}
               /\ item \notin Range(node_items) )
                => (emitted' = <<>> /\ invalidated' = <<>>)]_vars

\* C16: whatever was added and removed before, a position change of a node
\* whose item is in the scene does not raise, leaves the item at the node's new
\* position, requests exactly one anchor invalidation for the item and emits
\* node_item_position_changed exactly once, and writes no node's position
C16_PositionChangePropagatesOnce ==
    [][\A node \in Nodes :
          ( /\ call' = <<"position_changed", node>>
            /\ node \in DOMAIN item_for_node
            /\ item_for_node[node] \in Range(node_items) )
            => LET item == item_for_node[node]
               IN  /\ err' = NoErr
                   /\ item_pos'[item] = node_position'[node]
                   /\ invalidated' = << <<"node", item>> >>
                   /\ emitted' = << <<"node_item_position_changed", item>> >>
                   /\ \A other \in Nodes \ {node} :
                          node_position'[other] = node_position[other]]_vars

\* C18: add_node of a node that is not in the scene leaves the new item at the
\* node's stored position when the node has one, the origin included; when the
\* node has none, 150 to the right of the last node item of the scene, or at
\* (150, 150) in a scene without node items
C18_AddNodePlacesAtStoredPosition ==
    [][\A node \in Nodes :
          ( /\ call' = <<"add_node", node>>
            /\ node \notin DOMAIN item_for_node
            /\ err' = NoErr )
            => item_pos'[ret'] =
                 IF node_position[node] # NoPos THEN node_position[node]
                 ELSE IF node_items = <<>> THEN <<DefaultX, DefaultY>>
                 ELSE LET last == item_pos[node_items[Len(node_items)]]
                      IN  <<last[1] + OffsetX, last[2]>>]_vars

\* C19: a link item added to the scene and a link item removed from the scene
\* each make the scene request the anchor layout to invalidate that link
C19_LinkAddAndRemoveInvalidate ==
    [][\A link \in Links :
          /\ ( /\ call' = <<"add_link", link>>
               /\ link \notin DOMAIN item_for_link
               /\ err' = NoErr )
                => <<"link", ret'>> \in Range(invalidated')
          /\ ( /\ call' = <<"remove_link", link>>
               /\ link \in DOMAIN item_for_link
               /\ err' = NoErr )
                => <<"link", item_for_link[link]>> \in Range(invalidated')]_vars

NoDuplicates(seq) == Cardinality(Range(seq)) = Len(seq)

\* C20: add_node_item, add_link_item and add_annotation_item called with an
\* item that is already in the scene raise and leave the list of items as it
\* was, and no call leaves an item twice in node_items(), link_items() or
\* annotation_items()
C20_DuplicateItemIsRefused ==
    [][/\ \A item \in Items :
            /\ ( /\ call' = <<"add_node_item", ItemName(item)>>
                 /\ item \in Range(node_items) )
                  => (err' # NoErr /\ node_items' = node_items)
            /\ ( /\ call' = <<"add_link_item", ItemName(item)>>
                 /\ item \in Range(link_items) )
                  => (err' # NoErr /\ link_items' = link_items)
            /\ ( /\ call' = <<"add_annotation_item", ItemName(item)>>
                 /\ item \in Range(annotation_items) )
                  => (err' # NoErr /\ annotation_items' = annotation_items)
       /\ NoDuplicates(node_items')
       /\ NoDuplicates(link_items')
       /\ NoDuplicates(annotation_items')]_vars

\* C21: whatever was added, removed and committed, rejected commits included,
\* every item held in the node, link or annotation dict is in node_items(),
\* link_items() or annotation_items(), and the item add_node returns is in
\* node_items()
C21_RegistryItemsAreInScene ==
    /\ Values(item_for_node) \subseteq Range(node_items)
    /\ Values(item_for_link) \subseteq Range(link_items)
    /\ Values(item_for_annotation) \subseteq Range(annotation_items)
    /\ (call[1] = "add_node" /\ err = NoErr) => ret \in Range(node_items)

\* C22: after add_node, remove_node, add_link and remove_link calls in any
\* order, the source item and the sink item of every link item in
\* link_items() are in node_items()
C22_LinkEndsAreInScene ==
    \A item \in Range(link_items) :
        /\ link_ends[item][1] \in Range(node_items)
        /\ link_ends[item][2] \in Range(node_items)

\* C23: when add_node, add_link or add_annotation emits node_item_added,
\* link_item_added or annotation_added for the item it constructed, the
\* entity is registered for that item: a slot that looks the announced item up
\* during the emission gets the entity, and an add of the entity from that
\* slot finds it in the dict and returns the same item
C23_EntityRegisteredWhenAnnounced ==
    ( /\ call[1] \in {"add_node", "add_link", "add_annotation"}
      /\ emitted # <<>> )
        => announced = << {call[2]} >>

\* C24: whatever set_scheme calls came before, the scene holds an anchor
\* layout that is not deleted: no call fails on a deleted layout, and add_link
\* of a link whose end nodes are in the scene gets its invalidation request
\* through to the layout
C24_AnchorLayoutIsLive ==
    [][/\ anchor_layout' = "live"
       /\ err' # "RuntimeError"
       /\ \A link \in Links :
            ( /\ call' = <<"add_link", link>>
              /\ link \notin DOMAIN item_for_link
              /\ source_node(link) \in DOMAIN item_for_node
              /\ sink_node(link) \in DOMAIN item_for_node )
              => <<"link", ret'>> \in Range(invalidated')]_vars

====
